---- MODULE Spec2Model ----
(***************************************************************************)
(* Instrumented request lifecycle of the user-account service:             *)
(* the five traced handlers of users.controller.js, the verifyJWT          *)
(* middleware of auth.middleware.js and the mongoose User model.           *)
(*                                                                         *)
(* One action per synchronous segment of a handler: a handler runs         *)
(* without interruption up to its next await on the repository, so the     *)
(* repository call and the code that follows it up to the next call form   *)
(* one atomic step.  Several requests are in flight at once.               *)
(***************************************************************************)
EXTENDS Integers, Sequences, FiniteSets, TLC

VARIABLES users, req, total

vars == <<users, req, total>>

(* ------------------------------ bounds --------------------------------- *)
MaxUsers == 2      \* accounts the repository may hold
MaxReq   == 2      \* requests in flight at once
MaxTotal == 3      \* requests received over a run

Slots == 1..MaxReq
Ids   == 1..MaxUsers

\* "" is the falsy value of a missing body field
UserNames == {"alice", "bob"}
Emails    == {"a@x.com", "b@x.com"}
Passwords == {"secret1", "wrong"}
Absent    == ""

(* --------------------------- credential engine ------------------------- *)
\* bcrypt.hash(password, 10) in the pre-save hook
Hash(pw) == <<"bcrypt10", pw>>

\* a comparison that accepts every password
isPasswordCorrectAlways(pw, hash) == TRUE

\* bcrypt.compare(password, this.password)
isPasswordCorrect(pw, hash) == hash = Hash(pw)

NullToken == [typ |-> "null", _id |-> 0, iat |-> 0]

\* jwt.sign({_id, email, ...}, ACCESS_TOKEN_SECRET, {expiresIn})
generateAccessToken(doc, now) == [typ |-> "access", _id |-> doc._id, iat |-> now]

\* jwt.sign({_id}, REFRESH_TOKEN_SECRET, {expiresIn})
generateRefreshToken(doc, now) == [typ |-> "refresh", _id |-> doc._id, iat |-> now]

(* ------------------------------ documents ------------------------------ *)
NoDoc == [_id |-> 0, userName |-> Absent, email |-> Absent, password |-> <<>>,
          refreshToken |-> NullToken, isDeleted |-> FALSE, deletedAt |-> 0,
          lastUpdate |-> 0, __v |-> 0]

\* a new document that already carries a refresh token
NewDocWithToken(id, un, em, pw, now) ==
    [_id |-> id, userName |-> un, email |-> em, password |-> Hash(pw),
     refreshToken |-> [typ |-> "refresh", _id |-> id, iat |-> now],
     isDeleted |-> FALSE, deletedAt |-> 0, lastUpdate |-> now, __v |-> 0]

\* the document User.create stores: schema defaults plus the hashed password
NewDoc(id, un, em, pw, now) ==
    [_id |-> id, userName |-> un, email |-> em, password |-> Hash(pw),
     refreshToken |-> NullToken, isDeleted |-> FALSE, deletedAt |-> 0,
     lastUpdate |-> now, __v |-> 0]

\* a projection that leaves every field in
SelectAll(doc, excluded) == doc

\* query.select("-a -b"): the document without the excluded fields
Select(doc, excluded) == [f \in (DOMAIN doc) \ excluded |-> doc[f]]

\* a lookup by id that passes over soft-deleted accounts
findByIdNotDeleted(id) ==
    IF id \in DOMAIN users /\ ~users[id].isDeleted THEN users[id] ELSE NoDoc

\* User.findById(id): the stored document, or null
findById(id) == IF id \in DOMAIN users THEN users[id] ELSE NoDoc

Min(S) == CHOOSE x \in S : \A y \in S : x <= y

\* a lookup that finds nothing
findOneNothing(matches) == NoDoc

\* User.findOne(filter): the first of the stored documents the filter accepts
\* (matches: their ids), or null
findOne(matches) == IF matches = {} THEN NoDoc ELSE users[Min(matches)]

\* a collection without unique indexes
DuplicateKeyNever(id, un, em) == FALSE

\* the unique indexes on userName and email: would storing (un, em) under id
\* duplicate a key of another document
DuplicateKey(id, un, em) ==
    \E i \in DOMAIN users :
        i # id /\ (users[i].userName = un \/ users[i].email = em)

(* -------------------------------- errors ------------------------------- *)
\* new ApiError(statusCode, message)
ApiError(status, msg) == [statusCode |-> status, message |-> msg]

\* an Error thrown by the driver: it carries no statusCode
RepoError == [statusCode |-> 0, message |-> "repository error"]

\* the driver's error for a write that would duplicate a unique key
DuplicateKeyError == [statusCode |-> 0, message |-> "E11000 duplicate key error"]

NoError == [statusCode |-> 0, message |-> ""]

(* ----------------------------- span tracer ----------------------------- *)
\* tracer.startSpan(name, {parent})
startSpan(q, var, name, parent) ==
    [q EXCEPT !.spans = Append(@, [var |-> var, name |-> name, parent |-> parent,
                                   start |-> q.clk, ends |-> <<>>,
                                   exc |-> <<>>, attrs |-> {}]),
              !.clk = @ + 1]

SpanOf(q, var) == CHOOSE i \in DOMAIN q.spans : q.spans[i].var = var

IsEnded(s) == Len(s.ends) > 0

\* span.end(): every invocation is recorded; the tracer ignores all but the first
end(q, var) ==
    LET i == SpanOf(q, var) IN
    [q EXCEPT !.spans[i].ends = Append(@, q.clk), !.clk = @ + 1]

\* span.setAttribute(key, value): no effect on an ended span
setAttribute(q, var, key) ==
    LET i == SpanOf(q, var) IN
    IF IsEnded(q.spans[i]) THEN q
    ELSE [q EXCEPT !.spans[i].attrs = @ \cup {key}]

\* span.recordException(error): no effect on an ended span
recordException(q, var, err) ==
    LET i == SpanOf(q, var) IN
    IF IsEnded(q.spans[i]) THEN [q EXCEPT !.clk = @ + 1]
    ELSE [q EXCEPT !.spans[i].exc = Append(@, q.clk), !.clk = @ + 1]

(* ------------------------------ responses ------------------------------ *)
Null == "null"

\* new ApiResponse(statusCode, data, message)
ApiResponse(status, data, msg) == [status |-> status, data |-> data, message |-> msg]

\* res.status(code).json(body)
Respond(q, code, body) ==
    [q EXCEPT !.res = Append(@, [status |-> code, body |-> body])]

(* ------------------------------- requests ------------------------------ *)
NoBody == [userName |-> Absent, email |-> Absent, password |-> Absent]

Idle == [op |-> "idle", pc |-> "idle", body |-> NoBody, token |-> NullToken,
         user |-> 0, spans |-> <<>>, clk |-> 0, res |-> <<>>,
         caught |-> NoError, cause |-> "none", mwErr |-> NoError, verified |-> 0,
         doc |-> NoDoc, newId |-> 0, tokens |-> <<>>, writes |-> 0,
         escaped |-> FALSE]

\* a finally block that does not end the top-level span
FinallyWithoutEnd(q) == [q EXCEPT !.pc = "done"]

\* the finally block of every handler
FinallyBlock(q) == [end(q, "span") EXCEPT !.pc = "done"]

\* a catch block that answers without recording the failure on the span
CatchBlockUnrecorded(q, err) ==
    Respond([q EXCEPT !.caught = err], 400, [error |-> err.message])

\* the catch block of every handler
CatchBlock(q, err) ==
    Respond([recordException(q, "span", err) EXCEPT !.caught = err],
            400, [error |-> err.message])

\* a try block with finally and no catch: the failure leaves the handler
ThrowUncaught(q, err, cause) ==
    FinallyBlock([q EXCEPT !.cause = cause, !.escaped = TRUE])

\* throw inside the try block of a handler: catch, then finally
Throw(q, err, cause) == FinallyBlock(CatchBlock([q EXCEPT !.cause = cause], err))

\* a new request takes the first free slot, while the run has requests left
Accepts(r) ==
    /\ total < MaxTotal
    /\ req[r].pc = "idle"
    /\ \A k \in Slots : k < r => req[k].pc # "idle"

Init ==
    /\ users = <<>>
    /\ req = [r \in Slots |-> Idle]
    /\ total = 0

(* ------------------------------ CreateUser ----------------------------- *)
CreateMissingMsg == "Username, email, and password are required"
CreateExistsMsg  == "User with the given username or email already exists"

CreateUserStart(r, un, em, pw) ==
    /\ Accepts(r)
    /\ total' = total + 1
    /\ LET q0 == [Idle EXCEPT !.op = "create",
                              !.body = [userName |-> un, email |-> em, password |-> pw]]
           q1 == startSpan(q0, "span", "create_user_api", "none")
           q2 == startSpan(q1, "validationSpan", "validate_user_input", "span")
       IN req' = [req EXCEPT ![r] =
                    IF un = Absent \/ em = Absent \/ pw = Absent
                    THEN Throw(end(q2, "validationSpan"),
                               ApiError(400, CreateMissingMsg), "missing_fields")
                    ELSE [end(q2, "validationSpan") EXCEPT !.pc = "c_findOne"]]
    /\ UNCHANGED users

CreateUserFindOne(r, fail) ==
    /\ req[r].pc = "c_findOne"
    /\ LET q == req[r]
           filter == {i \in DOMAIN users : \/ users[i].userName = q.body.userName
                                           \/ users[i].email = q.body.email}
           existingUser == findOne(filter)
       IN req' = [req EXCEPT ![r] =
                    IF fail THEN Throw(q, RepoError, "repo_error")
                    ELSE IF existingUser # NoDoc
                    THEN Throw(q, ApiError(400, CreateExistsMsg), "duplicate")
                    ELSE [startSpan(q, "creationSpan", "create_user_in_db", "span")
                            EXCEPT !.pc = "c_create"]]
    /\ UNCHANGED <<users, total>>

CreateUserCreate(r, fail) ==
    /\ req[r].pc = "c_create"
    /\ LET q == req[r]
           id == Len(users) + 1
           dup == DuplicateKey(id, q.body.userName, q.body.email)
       IN IF fail \/ dup \/ id > MaxUsers
          THEN /\ fail \/ dup
               /\ req' = [req EXCEPT ![r] =
                            IF fail THEN Throw(q, RepoError, "repo_error")
                            ELSE Throw(q, DuplicateKeyError, "duplicate_key")]
               /\ UNCHANGED users
          ELSE /\ users' = Append(users, NewDoc(id, q.body.userName, q.body.email,
                                                 q.body.password, total))
               /\ LET q1 == setAttribute([q EXCEPT !.newId = id, !.writes = @ + 1],
                                         "creationSpan", "user.id")
                      q2 == end(q1, "creationSpan")
                      q3 == startSpan(q2, "retrievalSpan", "retrieve_created_user", "span")
                  IN req' = [req EXCEPT ![r] = [q3 EXCEPT !.pc = "c_findById"]]
    /\ UNCHANGED total

CreateUserFindById(r, fail) ==
    /\ req[r].pc = "c_findById"
    /\ LET q == req[r]
           found == findById(q.newId)
           createdUser == Select(found, {"password", "__v"})
       IN req' = [req EXCEPT ![r] =
                    IF fail THEN Throw(q, RepoError, "repo_error")
                    ELSE IF found = NoDoc
                    THEN Throw(end(q, "retrievalSpan"),
                               ApiError(500, "Failed to retrieve created user"),
                               "refetch_empty")
                    ELSE LET q1 == end(q, "retrievalSpan")
                             q2 == setAttribute(q1, "span", "user.id")
                             q3 == end(q2, "span")
                             q4 == Respond(q3, 201,
                                     ApiResponse(201, createdUser,
                                                 "User created successfully"))
                         IN FinallyBlock(q4)]
    /\ UNCHANGED <<users, total>>

(* ------------------------------- loginUser ----------------------------- *)
LoginMissingMsg == "Email and password are required"
LoginInvalidMsg == "Invalid email or password"
TokenErrorMsg   == "Error generating access and refresh tokens"

\* a message of its own for the unknown email
UnknownEmailOwnMsg == "User does not exist"

\* the message of the ApiError thrown when no account has the email
UnknownEmailMsg == LoginInvalidMsg

\* the message of the ApiError thrown when the password does not verify
WrongPasswordMsg == LoginInvalidMsg

LoginUserStart(r, em, pw) ==
    /\ Accepts(r)
    /\ total' = total + 1
    /\ LET q0 == [Idle EXCEPT !.op = "login",
                              !.body = [userName |-> Absent, email |-> em, password |-> pw]]
           q1 == startSpan(q0, "span", "login_user_api", "none")
           q2 == startSpan(q1, "loginSpan", "login_user_api", "span")
           q3 == setAttribute(q2, "loginSpan", "user.email")
           q4 == startSpan(q3, "validationSpan", "validate_login_input", "loginSpan")
           q5 == end(q4, "validationSpan")
       IN req' = [req EXCEPT ![r] =
                    IF em = Absent \/ pw = Absent
                    THEN Throw(q5, ApiError(400, LoginMissingMsg), "missing_fields")
                    ELSE [startSpan(q5, "retrievalSpan", "retrieve_user_for_login",
                                    "loginSpan") EXCEPT !.pc = "l_findOne"]]
    /\ UNCHANGED users

LoginUserFindOne(r, fail) ==
    /\ req[r].pc = "l_findOne"
    /\ LET q == req[r]
           filter == {i \in DOMAIN users : users[i].email = q.body.email}
           user == findOne(filter)
           q1 == end([q EXCEPT !.doc = user], "retrievalSpan")
       IN req' = [req EXCEPT ![r] =
                    IF fail THEN Throw(q, RepoError, "repo_error")
                    ELSE IF user = NoDoc
                    THEN Throw(q1, ApiError(401, UnknownEmailMsg), "unknown_email")
                    ELSE [startSpan(q1, "passwordValidationSpan",
                                    "validate_user_password", "loginSpan")
                            EXCEPT !.pc = "l_compare"]]
    /\ UNCHANGED <<users, total>>

LoginUserCompare(r) ==
    /\ req[r].pc = "l_compare"
    /\ LET q == req[r]
           isPasswordValid == isPasswordCorrect(q.body.password, q.doc.password)
           q1 == setAttribute(q, "passwordValidationSpan", "password.valid")
           q2 == end(q1, "passwordValidationSpan")
           q3 == setAttribute(q2, "loginSpan", "user.id")
       IN req' = [req EXCEPT ![r] =
                    IF ~isPasswordValid
                    THEN Throw(q2, ApiError(401, WrongPasswordMsg), "wrong_password")
                    ELSE [startSpan(q3, "tokenSpan", "generate_tokens_for_login",
                                    "loginSpan") EXCEPT !.pc = "l_genFind"]]
    /\ UNCHANGED <<users, total>>

\* generateAccessAndRefreshTokens up to user.save()
LoginUserGenFind(r, fail) ==
    /\ req[r].pc = "l_genFind"
    /\ LET q == req[r]
           user == findById(q.doc._id)
       IN req' = [req EXCEPT ![r] =
                    IF fail \/ user = NoDoc
                    THEN Throw(q, ApiError(500, TokenErrorMsg), "token_failure")
                    ELSE [q EXCEPT !.tokens = <<generateAccessToken(user, total),
                                                generateRefreshToken(user, total)>>,
                                   !.pc = "l_genSave"]]
    /\ UNCHANGED <<users, total>>

\* user.save() in generateAccessAndRefreshTokens, then the rest of loginUser
LoginUserGenSave(r, fail) ==
    /\ req[r].pc = "l_genSave"
    /\ LET q == req[r]
           accessToken == q.tokens[1]
           refreshToken == q.tokens[2]
       IN IF fail
          THEN /\ req' = [req EXCEPT ![r] =
                            Throw(q, ApiError(500, TokenErrorMsg), "token_failure")]
               /\ UNCHANGED users
          ELSE /\ users' = [users EXCEPT ![q.doc._id].refreshToken = refreshToken]
               /\ LET q1 == end([q EXCEPT !.writes = @ + 1], "tokenSpan")
                      q2 == end(q1, "loginSpan")
                      q3 == Respond(q2, 200,
                              ApiResponse(200, [accessToken |-> accessToken,
                                                user |-> q.doc,
                                                refreshToken |-> refreshToken],
                                          "Login successful"))
                  IN req' = [req EXCEPT ![r] = FinallyBlock(q3)]
    /\ UNCHANGED total

(* ------------------------------- verifyJWT ----------------------------- *)
\* the token the client sends (cookie accessToken, or the Authorization header
\* without its "Bearer " prefix): none, an access token signed with the access
\* secret, or one that jwt.verify refuses
ClientTokens ==
    {[typ |-> t, _id |-> 0, iat |-> 0] : t \in {"none", "expired", "badsig", "malformed"}}
    \cup {[typ |-> "access", _id |-> i, iat |-> 0] : i \in Ids}

\* a verification that ignores expiry
JwtVerifyIgnoringExpiry(tok) ==
    CASE tok.typ \in {"access", "expired"} -> ""
      [] tok.typ = "malformed"             -> "jwt malformed"
      [] OTHER                             -> "invalid signature"

\* the message of the error jwt.verify throws, "" when the token verifies
JwtVerifyError(tok) ==
    CASE tok.typ = "access"    -> ""
      [] tok.typ = "expired"   -> "jwt expired"
      [] tok.typ = "malformed" -> "jwt malformed"
      [] OTHER                 -> "invalid signature"

\* a catch block that rethrows the error it caught
Rethrow(q, err) == [q EXCEPT !.mwErr = err, !.pc = "rejected"]

\* the catch block of verifyJWT: every failure leaves as a 401 ApiError
Reject(q, err) ==
    [q EXCEPT !.mwErr = ApiError(401, IF err.message # "" THEN err.message
                                      ELSE "Invalid Access Token"),
              !.pc = "rejected"]

VerifyJWT(r, op, tok, body) ==
    /\ Accepts(r)
    /\ total' = total + 1
    /\ LET q0 == [Idle EXCEPT !.op = op, !.token = tok, !.body = body]
           q1 == [q0 EXCEPT !.verified = @ + 1]
       IN req' = [req EXCEPT ![r] =
                    IF tok.typ = "none"
                    THEN Reject(q0, ApiError(401, "Unauthorized"))
                    ELSE IF JwtVerifyError(tok) # ""
                    THEN Reject(q1, [statusCode |-> 0, message |-> JwtVerifyError(tok)])
                    ELSE [q1 EXCEPT !.pc = "mw_find"]]
    /\ UNCHANGED users

VerifyJWTFindById(r, fail) ==
    /\ req[r].pc = "mw_find"
    /\ LET q == req[r]
           user == findById(q.token._id)
       IN req' = [req EXCEPT ![r] =
                    IF fail THEN Reject(q, RepoError)
                    ELSE IF user = NoDoc
                    THEN Reject(q, ApiError(401, "Invalid access Token"))
                    ELSE [q EXCEPT !.user = Select(user, {"password", "refreshToken"})._id,
                                   !.pc = "next"]]
    /\ UNCHANGED <<users, total>>

(* ------------------------------- logoutUser ---------------------------- *)
NotFoundMsg == "User not found"

LogoutUserStart(r) ==
    /\ req[r].pc = "next"
    /\ req[r].op = "logout"
    /\ LET q1 == startSpan(req[r], "span", "logout_user_api", "none")
           q2 == startSpan(q1, "logoutSpan", "logout_user_api", "span")
           q3 == setAttribute(q2, "logoutSpan", "user.id")
           q4 == startSpan(q3, "retrievalSpan", "retrieve_user_for_logout", "logoutSpan")
       IN req' = [req EXCEPT ![r] = [q4 EXCEPT !.pc = "o_findById"]]
    /\ UNCHANGED <<users, total>>

LogoutUserFindById(r, fail) ==
    /\ req[r].pc = "o_findById"
    /\ LET q == req[r]
           user == findById(q.user)
           q1 == end([q EXCEPT !.doc = user], "retrievalSpan")
       IN req' = [req EXCEPT ![r] =
                    IF fail THEN Throw(q, RepoError, "repo_error")
                    ELSE IF user = NoDoc
                    THEN Throw(q1, ApiError(404, NotFoundMsg), "not_found")
                    ELSE [startSpan(q1, "tokenClearSpan", "clear_refresh_token",
                                    "logoutSpan") EXCEPT !.pc = "o_save"]]
    /\ UNCHANGED <<users, total>>

\* a logout that answers without clearing the stored refresh token
LogoutUserSaveKeepsToken(r, fail) ==
    /\ req[r].pc = "o_save"
    /\ LET q == req[r]
           q1 == end([q EXCEPT !.writes = @ + 1], "tokenClearSpan")
           q2 == end(q1, "logoutSpan")
           q3 == Respond(q2, 200, ApiResponse(200, Null, "Logout successful"))
       IN req' = [req EXCEPT ![r] =
                    IF fail THEN Throw(q, RepoError, "repo_error") ELSE FinallyBlock(q3)]
    /\ UNCHANGED <<users, total>>

LogoutUserSave(r, fail) ==
    /\ req[r].pc = "o_save"
    /\ LET q == req[r]
       IN IF fail
          THEN /\ req' = [req EXCEPT ![r] = Throw(q, RepoError, "repo_error")]
               /\ UNCHANGED users
          ELSE /\ users' = [users EXCEPT ![q.user].refreshToken = NullToken]
               /\ LET q1 == end([q EXCEPT !.writes = @ + 1], "tokenClearSpan")
                      q2 == end(q1, "logoutSpan")
                      q3 == Respond(q2, 200, ApiResponse(200, Null, "Logout successful"))
                  IN req' = [req EXCEPT ![r] = FinallyBlock(q3)]
    /\ UNCHANGED total

(* ------------------------------- UpdateUser ---------------------------- *)
UpdateMissingMsg == "Username and email are required"

UpdateUserStart(r) ==
    /\ req[r].pc = "next"
    /\ req[r].op = "update"
    /\ LET q1 == startSpan(req[r], "span", "update_user_api", "none")
           q2 == startSpan(q1, "updateSpan", "update_user_api", "span")
           q3 == setAttribute(q2, "updateSpan", "user.id")
           q4 == startSpan(q3, "retrievalSpan", "retrieve_user_for_update", "updateSpan")
       IN req' = [req EXCEPT ![r] = [q4 EXCEPT !.pc = "u_findById"]]
    /\ UNCHANGED <<users, total>>

\* an update that goes to the repository without validating its input
UpdateUserFindByIdUnvalidated(r, fail) ==
    /\ req[r].pc = "u_findById"
    /\ LET q == req[r]
           user == findById(q.user)
           q1 == end([q EXCEPT !.doc = user], "retrievalSpan")
       IN req' = [req EXCEPT ![r] =
                    IF fail THEN Throw(q, RepoError, "repo_error")
                    ELSE IF user = NoDoc
                    THEN Throw(q1, ApiError(404, "User not found"), "not_found")
                    ELSE [startSpan(q1, "updateDatabaseSpan", "update_user_in_db",
                                    "updateSpan") EXCEPT !.pc = "u_update"]]
    /\ UNCHANGED <<users, total>>

UpdateUserFindById(r, fail) ==
    /\ req[r].pc = "u_findById"
    /\ LET q == req[r]
           user == findById(q.user)
           q1 == end([q EXCEPT !.doc = user], "retrievalSpan")
           q2 == startSpan(q1, "validationSpan", "validate_update_input", "updateSpan")
           q3 == end(q2, "validationSpan")
       IN req' = [req EXCEPT ![r] =
                    IF fail THEN Throw(q, RepoError, "repo_error")
                    ELSE IF user = NoDoc
                    THEN Throw(q1, ApiError(404, NotFoundMsg), "not_found")
                    ELSE IF q.body.userName = Absent \/ q.body.email = Absent
                    THEN Throw(q3, ApiError(400, UpdateMissingMsg), "missing_fields")
                    ELSE [startSpan(q3, "updateDatabaseSpan", "update_user_in_db",
                                    "updateSpan") EXCEPT !.pc = "u_update"]]
    /\ UNCHANGED <<users, total>>

UpdateUserUpdate(r, fail) ==
    /\ req[r].pc = "u_update"
    /\ LET q == req[r]
           id == q.user
           dup == DuplicateKey(id, q.body.userName, q.body.email)
       IN IF fail \/ dup
          THEN /\ req' = [req EXCEPT ![r] =
                            IF fail THEN Throw(q, RepoError, "repo_error")
                            ELSE Throw(q, DuplicateKeyError, "duplicate_key")]
               /\ UNCHANGED users
          ELSE IF id \notin DOMAIN users
          THEN /\ LET q1 == setAttribute(q, "updateDatabaseSpan", "user.name")
                      q2 == setAttribute(q1, "updateDatabaseSpan", "user.email")
                      q3 == end(q2, "updateDatabaseSpan")
                  IN req' = [req EXCEPT ![r] =
                               Throw(q3, ApiError(500, "Failed to update user"),
                                     "update_empty")]
               /\ UNCHANGED users
          ELSE /\ users' = [users EXCEPT ![id].userName = q.body.userName,
                                         ![id].email = q.body.email,
                                         ![id].lastUpdate = total]
               /\ LET updateUser == Select(users'[id], {"password", "__v"})
                      q1 == setAttribute([q EXCEPT !.writes = @ + 1],
                                         "updateDatabaseSpan", "user.name")
                      q2 == setAttribute(q1, "updateDatabaseSpan", "user.email")
                      q3 == end(q2, "updateDatabaseSpan")
                      q4 == end(q3, "updateSpan")
                      q5 == Respond(q4, 200,
                              ApiResponse(200, updateUser, "User updated successfully"))
                  IN req' = [req EXCEPT ![r] = FinallyBlock(q5)]
    /\ UNCHANGED total

(* ------------------------------- deleteUser ---------------------------- *)
DeleteUserStart(r) ==
    /\ req[r].pc = "next"
    /\ req[r].op = "delete"
    /\ LET q1 == startSpan(req[r], "span", "delete_user_api", "none")
           q2 == startSpan(q1, "deleteSpan", "delete_user_api", "span")
           q3 == setAttribute(q2, "deleteSpan", "user.id")
           q4 == startSpan(q3, "retrievalSpan", "retrieve_user_for_deletion", "deleteSpan")
       IN req' = [req EXCEPT ![r] = [q4 EXCEPT !.pc = "d_findById"]]
    /\ UNCHANGED <<users, total>>

DeleteUserFindById(r, fail) ==
    /\ req[r].pc = "d_findById"
    /\ LET q == req[r]
           user == findById(q.user)
           q1 == end([q EXCEPT !.doc = user], "retrievalSpan")
       IN req' = [req EXCEPT ![r] =
                    IF fail THEN Throw(q, RepoError, "repo_error")
                    ELSE IF user = NoDoc
                    THEN Throw(q1, ApiError(404, NotFoundMsg), "not_found")
                    ELSE [startSpan(q1, "deletionSpan", "mark_user_as_deleted",
                                    "deleteSpan") EXCEPT !.pc = "d_save"]]
    /\ UNCHANGED <<users, total>>

\* a delete that sets the flag and leaves deletedAt null
DeleteUserSaveNoTimestamp(r, fail) ==
    /\ req[r].pc = "d_save"
    /\ LET q == req[r]
           q1 == end([q EXCEPT !.writes = @ + 1], "deletionSpan")
           q2 == end(q1, "deleteSpan")
           q3 == Respond(q2, 200, ApiResponse(200, Null, "User deleted successfully"))
       IN IF fail
          THEN /\ req' = [req EXCEPT ![r] = Throw(q, RepoError, "repo_error")]
               /\ UNCHANGED users
          ELSE /\ users' = [users EXCEPT ![q.user].isDeleted = TRUE]
               /\ req' = [req EXCEPT ![r] = FinallyBlock(q3)]
    /\ UNCHANGED total

DeleteUserSave(r, fail) ==
    /\ req[r].pc = "d_save"
    /\ LET q == req[r]
       IN IF fail
          THEN /\ req' = [req EXCEPT ![r] = Throw(q, RepoError, "repo_error")]
               /\ UNCHANGED users
          ELSE /\ users' = [users EXCEPT ![q.user].isDeleted = TRUE,
                                         ![q.user].deletedAt = total]
               /\ LET q1 == end([q EXCEPT !.writes = @ + 1], "deletionSpan")
                      q2 == end(q1, "deleteSpan")
                      q3 == Respond(q2, 200,
                              ApiResponse(200, Null, "User deleted successfully"))
                  IN req' = [req EXCEPT ![r] = FinallyBlock(q3)]
    /\ UNCHANGED total

(* ------------------------------ the service ---------------------------- *)
\* request bodies: every field present, or one of them missing
CreateBodies ==
    {[userName |-> un, email |-> em, password |-> "secret1"] :
        un \in UserNames, em \in Emails}
    \cup {[userName |-> Absent, email |-> "a@x.com", password |-> "secret1"],
          [userName |-> "alice", email |-> Absent, password |-> "secret1"],
          [userName |-> "alice", email |-> "a@x.com", password |-> Absent]}

LoginBodies ==
    {[email |-> em, password |-> pw] : em \in Emails, pw \in Passwords}
    \cup {[email |-> Absent, password |-> "secret1"],
          [email |-> "a@x.com", password |-> Absent]}

UpdateBodies ==
    {[userName |-> un, email |-> em, password |-> Absent] :
        un \in UserNames, em \in Emails}
    \cup {[userName |-> Absent, email |-> "a@x.com", password |-> Absent],
          [userName |-> "bob", email |-> Absent, password |-> Absent]}

\* the response has been written and the request is over
Complete(r) ==
    /\ req[r].pc \in {"done", "rejected"}
    /\ req' = [req EXCEPT ![r] = Idle]
    /\ UNCHANGED <<users, total>>

Next ==
    \/ \E r \in Slots, b \in CreateBodies :
          CreateUserStart(r, b.userName, b.email, b.password)
    \/ \E r \in Slots, fail \in BOOLEAN : CreateUserFindOne(r, fail)
    \/ \E r \in Slots, fail \in BOOLEAN : CreateUserCreate(r, fail)
    \/ \E r \in Slots, fail \in BOOLEAN : CreateUserFindById(r, fail)
    \/ \E r \in Slots, b \in LoginBodies : LoginUserStart(r, b.email, b.password)
    \/ \E r \in Slots, fail \in BOOLEAN : LoginUserFindOne(r, fail)
    \/ \E r \in Slots : LoginUserCompare(r)
    \/ \E r \in Slots, fail \in BOOLEAN : LoginUserGenFind(r, fail)
    \/ \E r \in Slots, fail \in BOOLEAN : LoginUserGenSave(r, fail)
    \/ \E r \in Slots, tok \in ClientTokens : VerifyJWT(r, "logout", tok, NoBody)
    \/ \E r \in Slots, tok \in ClientTokens : VerifyJWT(r, "delete", tok, NoBody)
    \/ \E r \in Slots, tok \in ClientTokens, b \in UpdateBodies :
          VerifyJWT(r, "update", tok, b)
    \/ \E r \in Slots, fail \in BOOLEAN : VerifyJWTFindById(r, fail)
    \/ \E r \in Slots : LogoutUserStart(r)
    \/ \E r \in Slots, fail \in BOOLEAN : LogoutUserFindById(r, fail)
    \/ \E r \in Slots, fail \in BOOLEAN : LogoutUserSave(r, fail)
    \/ \E r \in Slots : UpdateUserStart(r)
    \/ \E r \in Slots, fail \in BOOLEAN : UpdateUserFindById(r, fail)
    \/ \E r \in Slots, fail \in BOOLEAN : UpdateUserUpdate(r, fail)
    \/ \E r \in Slots : DeleteUserStart(r)
    \/ \E r \in Slots, fail \in BOOLEAN : DeleteUserFindById(r, fail)
    \/ \E r \in Slots, fail \in BOOLEAN : DeleteUserSave(r, fail)
    \/ \E r \in Slots : Complete(r)

Spec == Init /\ [][Next]_vars
(* ------------------------------ properties ----------------------------- *)
Done(r) == req[r].pc = "done"
Rejected(r) == req[r].pc = "rejected"
Failed(r) == Done(r) /\ req[r].cause # "none"
Succeeded(r) == Done(r) /\ req[r].cause = "none"
Protected(r) == req[r].op \in {"logout", "update", "delete"}
TopSpan(r) == req[r].spans[SpanOf(req[r], "span")]
HandlerPcs == {"o_findById", "o_save", "u_findById", "u_update",
               "d_findById", "d_save", "done"}

\* C1: when a handler completes, on any exit path, every span the request
\* started (top-level and child) has been ended
C1_NoSpanLeftOpen ==
    \A r \in Slots : Done(r) =>
        \A i \in DOMAIN req[r].spans : IsEnded(req[r].spans[i])

\* C2: no operation invokes end more than once on any span it started,
\* the top-level span included
C2_EndAtMostOnce ==
    \A r \in Slots : \A i \in DOMAIN req[r].spans : Len(req[r].spans[i].ends) <= 1

\* C3: a handler that has started its top-level span cannot complete, by
\* success or by failure, without that span having been ended
C3_TopSpanEnded ==
    \A r \in Slots : Done(r) =>
        /\ \E i \in DOMAIN req[r].spans : req[r].spans[i].var = "span"
        /\ IsEnded(TopSpan(r))

C3_Witness ==
    \E r, k \in Slots :
        /\ Failed(r) /\ req[r].cause = "repo_error" /\ IsEnded(TopSpan(r))
        /\ Succeeded(k) /\ IsEnded(TopSpan(k))

\* C4: logout, update and delete run only for a request whose token was
\* found, verified and resolved to an existing account; any other request is
\* rejected with 401 having started no span, written nothing and answered
\* nothing, and a missing token is rejected with no verification attempt
C4_OnlyAuthenticatedReachHandler ==
    \A r \in Slots : Protected(r) =>
        /\ (req[r].pc \in HandlerPcs \cup {"next"} \/ req[r].spans # <<>>
               \/ req[r].writes > 0 \/ req[r].res # <<>>) =>
              /\ req[r].token.typ = "access"
              /\ req[r].verified = 1
              /\ req[r].user = req[r].token._id
              /\ req[r].user \in DOMAIN users
        /\ req[r].token.typ # "access" => Rejected(r)
        /\ req[r].token.typ = "none" => req[r].verified = 0
        /\ (req[r].pc # "mw_find" /\ req[r].token._id \notin DOMAIN users) => Rejected(r)
        /\ Rejected(r) =>
              /\ req[r].mwErr.statusCode = 401
              /\ req[r].spans = <<>> /\ req[r].writes = 0 /\ req[r].res = <<>>

C4_Witness ==
    \E r, k \in Slots :
        /\ Protected(r) /\ Succeeded(r) /\ req[r].writes = 1
        /\ Protected(k) /\ Rejected(k) /\ req[k].token.typ = "access"

\* C5: login issues tokens and overwrites the stored refresh token only when
\* an account with the given email was found and the supplied password
\* verifies against its stored hash; with a missing field, an unknown email
\* or a wrong password no token is issued and nothing is written
C5_TokensOnlyForVerifiedLogin ==
    \A r \in Slots : req[r].op = "login" =>
        /\ (req[r].tokens # <<>> \/ req[r].writes > 0 \/ Succeeded(r)) =>
              /\ req[r].doc._id \in DOMAIN users
              /\ req[r].doc.email = req[r].body.email
              /\ req[r].doc.password = Hash(req[r].body.password)
              /\ users[req[r].doc._id].password = Hash(req[r].body.password)
        /\ (Done(r) /\ req[r].cause \in {"missing_fields", "unknown_email",
                                         "wrong_password"}) =>
              /\ req[r].tokens = <<>>
              /\ req[r].writes = 0
              /\ DOMAIN req[r].res[1].body = {"error"}

C5_Witness ==
    \E r, k \in Slots :
        /\ req[r].op = "login" /\ Succeeded(r) /\ req[r].writes = 1
        /\ users[req[r].doc._id].refreshToken = req[r].tokens[2]
        /\ req[k].op = "login" /\ Failed(k) /\ req[k].cause = "wrong_password"

\* C6: the response to a login with an unknown email and the response to a
\* login with a known email and a wrong password are equal in status and
\* body, and hold nothing but the generic message
C6_LoginFailuresIndistinguishable ==
    \A r, k \in Slots :
        (/\ req[r].op = "login" /\ Done(r) /\ req[r].cause = "unknown_email"
         /\ req[k].op = "login" /\ Done(k) /\ req[k].cause = "wrong_password") =>
            /\ req[r].res = req[k].res
            /\ Len(req[r].res) = 1
            /\ DOMAIN req[r].res[1].body = {"error"}

C6_Witness ==
    \E r, k \in Slots :
        /\ req[r].op = "login" /\ Done(r) /\ req[r].cause = "unknown_email"
        /\ req[k].op = "login" /\ Done(k) /\ req[k].cause = "wrong_password"
        /\ req[r].body.email # req[k].body.email

\* C7 (as stated): any two rejections of the middleware carry the same
\* status and the same message, whatever check failed
C7_UniformRejection ==
    \A r, k \in Slots : (Rejected(r) /\ Rejected(k)) => req[r].mwErr = req[k].mwErr

\* C7 (amended): every rejection of the middleware carries status 401,
\* whatever check failed; the message is that of the failed check
C7_RejectionIs401 ==
    \A r \in Slots : Rejected(r) =>
        /\ req[r].mwErr.statusCode = 401
        /\ req[r].mwErr.message # ""

C7_Witness ==
    \E r, k \in Slots :
        /\ Rejected(r) /\ req[r].token.typ = "none"
        /\ Rejected(k) /\ req[k].token.typ = "expired"
        /\ req[r].mwErr.message # req[k].mwErr.message

\* C8: the account returned by a successful create or update is the
\* re-fetched or updated record without its password and version fields
C8_NoPasswordInReturnedAccount ==
    \A r \in Slots : (Succeeded(r) /\ req[r].op \in {"create", "update"}) =>
        LET data == req[r].res[1].body.data IN
        /\ "password" \notin DOMAIN data
        /\ "__v" \notin DOMAIN data
        /\ DOMAIN data = (DOMAIN NoDoc) \ {"password", "__v"}
        /\ data._id = IF req[r].op = "create" THEN req[r].newId ELSE req[r].user

C8_Witness ==
    \E r, k \in Slots :
        /\ Succeeded(r) /\ req[r].op = "create"
        /\ Succeeded(k) /\ req[k].op = "update"
        /\ req[k].res[1].body.data.userName = req[k].body.userName

\* the status the error taxonomy fixes for each kind of failure
StatusOfKind(cause) ==
    CASE cause \in {"missing_fields", "duplicate"}                    -> 400
      [] cause \in {"unknown_email", "wrong_password"}                -> 401
      [] cause = "not_found"                                          -> 404
      [] cause \in {"refetch_empty", "update_empty", "token_failure"} -> 500

\* C9: each failure is answered with the status of its kind: 400 for missing
\* fields and duplicates, 401 for invalid credentials, 404 for a caller not
\* found, 500 for an empty re-fetch, an empty update or a token failure
C9_StatusOfKind ==
    \A r \in Slots : (Failed(r) /\ req[r].cause \notin {"repo_error", "duplicate_key"}) =>
        req[r].res[1].status = StatusOfKind(req[r].cause)

\* C10: every invocation of an operation completes having sent exactly one
\* response, the success envelope or the error envelope, and no failure
\* leaves the handler; nothing is sent before the handler completes
C10_ExactlyOneResponse ==
    \A r \in Slots :
        /\ ~req[r].escaped
        /\ Done(r) => Len(req[r].res) = 1
        /\ ~Done(r) => req[r].res = <<>>
        /\ Succeeded(r) => /\ "error" \notin DOMAIN req[r].res[1].body
                           /\ req[r].res[1].status \in {200, 201}
        /\ Failed(r) => req[r].res[1].body = [error |-> req[r].caught.message]

C10_Witness ==
    \E r, k \in Slots :
        /\ Failed(r) /\ req[r].cause = "token_failure" /\ Len(req[r].res) = 1
        /\ Succeeded(k) /\ Len(req[k].res) = 1
\* the request in slot r takes a step
Steps(r) == req'[r] # req[r]

\* the step completes the request in slot r with a success response
Succeeds(r) == req[r].pc # "done" /\ req'[r].pc = "done" /\ req'[r].cause = "none"

\* C11: the step that completes a successful logout leaves the account's
\* stored refresh token null, and a null stored refresh token becomes
\* non-null only by the step of a login for that account persisting the
\* token it issued
C11_LogoutClearsRefreshToken ==
    [][/\ \A r \in Slots : (req[r].op = "logout" /\ Succeeds(r)) =>
              users'[req[r].user].refreshToken = NullToken
       /\ \A i \in DOMAIN users :
              (users[i].refreshToken = NullToken
                 /\ users'[i].refreshToken # NullToken) =>
                 \E r \in Slots :
                    /\ req[r].op = "login" /\ Succeeds(r)
                    /\ req[r].doc._id = i
                    /\ users'[i].refreshToken = req[r].tokens[2]]_vars

C11_Witness ==
    \E r \in Slots :
        /\ req[r].op = "logout" /\ Succeeded(r)
        /\ req[r].doc.refreshToken # NullToken
        /\ users[req[r].user].refreshToken = NullToken

\* C12: the step that completes a successful delete leaves the caller's
\* account with isDeleted true and a non-null deletedAt, and no step of any
\* operation removes an account: each account of a state is an account,
\* under the same id, of the next
C12_SoftDeleteNeverRemoves ==
    [][/\ \A r \in Slots : (req[r].op = "delete" /\ Succeeds(r)) =>
              /\ users'[req[r].user].isDeleted
              /\ users'[req[r].user].deletedAt # 0
       /\ \A i \in DOMAIN users :
              i \in DOMAIN users' /\ users'[i]._id = users[i]._id]_vars

C12_Witness ==
    \E r \in Slots :
        /\ req[r].op = "delete" /\ Succeeded(r)
        /\ req[r].user \in DOMAIN users
        /\ users[req[r].user].isDeleted
        /\ users[req[r].user].deletedAt # 0

\* C13: a request that finds its account already deleted issues no token
\* and writes nothing: no login for it succeeds, and no logout, update or
\* delete changes it
C13_DeletedAccountExcluded ==
    \A r \in Slots : req[r].doc.isDeleted =>
        /\ req[r].tokens = <<>>
        /\ req[r].writes = 0
        /\ ~Succeeded(r)
\* C14: under every interleaving of the requests, no two accounts share a
\* userName and no two accounts share an email
C14_UniqueUserNameAndEmail ==
    \A i, j \in DOMAIN users : i # j =>
        /\ users[i].userName # users[j].userName
        /\ users[i].email # users[j].email

C14_Witness ==
    /\ Len(users) = 2
    /\ \E r \in Slots : Failed(r) /\ req[r].cause = "duplicate_key"

\* the accounts whose userName or email is that of the body of request r
Clashing(r) ==
    {i \in DOMAIN users : \/ users[i].userName = req[r].body.userName
                          \/ users[i].email = req[r].body.email}

\* C15: a create that reaches the repository when an account already has its
\* userName or email is answered 400 and creates no account; when its own
\* lookup finds that account, the answer is the Conflict message
C15_DuplicateCreateConflicts ==
    [][\A r \in Slots :
          (/\ req[r].op = "create" /\ req[r].pc \in {"c_findOne", "c_create"}
           /\ Steps(r) /\ Clashing(r) # {}) =>
              /\ users' = users
              /\ req'[r].pc = "done"
              /\ req'[r].newId = 0
              /\ Len(req'[r].res) = 1 /\ req'[r].res[1].status = 400
              /\ (req[r].pc = "c_findOne" /\ req'[r].cause # "repo_error") =>
                    /\ req'[r].cause = "duplicate"
                    /\ req'[r].res[1].body = [error |-> CreateExistsMsg]]_vars

C15_Witness ==
    \E r \in Slots :
        /\ req[r].op = "create" /\ Failed(r) /\ req[r].cause = "duplicate"
        /\ Len(users) = 1
        /\ users[1].userName = req[r].body.userName
        /\ users[1].email = req[r].body.email
        /\ users[1].password = Hash(req[r].body.password)

\* C16: an update of an authenticated caller that lacks userName or email
\* is answered 400 with the InvalidInput message, and no step of it changes
\* any account
C16_UpdateMissingFieldRejected ==
    [][\A r \in Slots :
          (/\ req[r].op = "update" /\ Steps(r)
           /\ (req[r].body.userName = Absent \/ req[r].body.email = Absent)) =>
              /\ users' = users
              /\ req'[r].pc # "u_update"
              /\ (req[r].pc = "u_findById" /\ req'[r].cause # "repo_error") =>
                    /\ req'[r].pc = "done"
                    /\ req'[r].cause = "missing_fields"
                    /\ req'[r].res = <<[status |-> 400,
                                        body |-> [error |-> UpdateMissingMsg]]>>]_vars

C16_Witness ==
    \E r \in Slots :
        /\ req[r].op = "update" /\ Failed(r) /\ req[r].cause = "missing_fields"
        /\ req[r].body.email = Absent
        /\ req[r].doc = users[req[r].user]

\* C17: the stored refresh token of an account changes only by the step of
\* a login for it, to the token that login issued, or by the step of a
\* logout of it, to null; a new account starts with none; create, update
\* and delete change no stored refresh token
C17_RefreshTokenFrame ==
    [][/\ \A i \in DOMAIN users :
              users'[i].refreshToken # users[i].refreshToken =>
                 \E r \in Slots :
                    /\ Succeeds(r)
                    /\ \/ /\ req[r].op = "login" /\ req[r].doc._id = i
                          /\ users'[i].refreshToken = req[r].tokens[2]
                       \/ /\ req[r].op = "logout" /\ req[r].user = i
                          /\ users'[i].refreshToken = NullToken
       /\ \A i \in (DOMAIN users') \ (DOMAIN users) :
              users'[i].refreshToken = NullToken
       /\ \A r \in Slots :
              (Steps(r) /\ req[r].op \in {"create", "update", "delete"}) =>
                 \A i \in DOMAIN users :
                    users'[i].refreshToken = users[i].refreshToken]_vars

C17_Witness ==
    \E r \in Slots :
        /\ req[r].op \in {"update", "delete"} /\ Succeeded(r)
        /\ users[req[r].user].refreshToken.typ = "refresh"
\* C18: a failed operation has recorded its failure as an exception on its
\* top-level span while that span was open, before the span was ended; an
\* operation that did not fail has recorded no exception on any span
C18_FailureRecordedBeforeEnd ==
    \A r \in Slots :
        /\ Failed(r) =>
              /\ Len(TopSpan(r).exc) = 1
              /\ \A e \in DOMAIN TopSpan(r).ends : TopSpan(r).exc[1] < TopSpan(r).ends[e]
        /\ req[r].cause = "none" =>
              \A i \in DOMAIN req[r].spans : req[r].spans[i].exc = <<>>

C18_Witness ==
    \E r, k \in Slots :
        /\ Failed(r) /\ req[r].cause = "wrong_password"
        /\ TopSpan(r).exc # <<>>
        /\ Succeeded(k) /\ TopSpan(k).exc = <<>>

\* span j of request q was started under span i, directly or through other spans
RECURSIVE Under(_, _, _)
Under(q, j, i) ==
    /\ q.spans[j].parent # "none"
    /\ LET p == SpanOf(q, q.spans[j].parent)
       IN p = i \/ Under(q, p, i)

\* C19: whenever a span has been ended, every span started under it,
\* directly or transitively, was ended before it
C19_ChildrenEndFirst ==
    \A r \in Slots : \A i, j \in DOMAIN req[r].spans :
        (IsEnded(req[r].spans[i]) /\ Under(req[r], j, i)) =>
            /\ IsEnded(req[r].spans[j])
            /\ req[r].spans[j].ends[1] < req[r].spans[i].ends[1]

\* C20: the account returned by a successful login carries no password field
C20_LoginReturnsNoPassword ==
    \A r \in Slots : (req[r].op = "login" /\ Succeeded(r)) =>
        "password" \notin DOMAIN req[r].res[1].body.data.user
\* C21: under every interleaving, a logout, update or delete that passed the
\* middleware never fails with 'User not found': the account the middleware
\* resolved is still in the repository when the handler fetches it again
C21_NotFoundUnreachable ==
    \A r \in Slots : Protected(r) =>
        /\ req[r].cause # "not_found"
        /\ req[r].pc \in HandlerPcs \cup {"next"} => req[r].user \in DOMAIN users
        /\ req[r].pc \in {"o_save", "u_update", "d_save"} =>
              /\ req[r].doc # NoDoc
              /\ req[r].doc._id = req[r].user

C21_Witness ==
    \E r, k \in Slots :
        /\ r # k
        /\ req[k].op = "delete" /\ Succeeded(k)
        /\ Protected(r) /\ req[r].user = req[k].user
        /\ req[r].pc \in {"o_save", "u_update", "d_save"}
        /\ req[r].doc.isDeleted

\* C22: a request answered with an error has written nothing to the
\* repository, and a failed create has left no account behind
C22_ErrorMeansNoChange ==
    \A r \in Slots : Failed(r) =>
        /\ req[r].writes = 0
        /\ req[r].newId \notin DOMAIN users
====
